---- MODULE Spec2Model ----
(***************************************************************************)
(* Model of the link hook of the runtime security probes                   *)
(* (pkg/security/ebpf/c/include/hooks/link.h): the syscall cache entry of  *)
(* a link instance, the probes that create, populate and reclaim it, the   *)
(* segmented path resolver they tail-call into, and the emitted events.    *)
(***************************************************************************)
EXTENDS Integers, Sequences, FiniteSets, TLC

\* ------------------------------------------------------------------ bounds
NThreads == 2         \* threads that issue link calls
MaxInstances == 2     \* link instances a thread may run one after the other
MaxDepth == 3         \* deepest directory entry a walk may start from
MaxVfsCalls == 2      \* firings of the vfs_link probe inside one instance
MaxDataSize == 10     \* largest data_size handed to read_into_buffer

\* --------------------------------------------------------- program constants
EVENT_LINK == "EVENT_LINK"
NO_FILTER == "NO_FILTER"
ALLOW_LIST == "ALLOW_LIST"
DENY_LIST == "DENY_LIST"
SYNC_SYSCALL == 0
ASYNC_SYSCALL == 1
EVENT_FLAGS_ASYNC == 1
DR_KPROBE == "DR_KPROBE"
DR_TRACEPOINT == "DR_TRACEPOINT"
PR_PROGKEY_CB_LINK_SRC_KPROBE == "PR_PROGKEY_CB_LINK_SRC_KPROBE"
PR_PROGKEY_CB_LINK_DST == "PR_PROGKEY_CB_LINK_DST"
DENTRY_DISCARDED == -2
DENTRY_ERROR == -1
DR_MAX_ITERATION_DEPTH == 2   \* components one resolver invocation may process
EACCES == 13
ENOENT == 2
NullDentry == 0
FAKE_INODE_MSW == 57005       \* upper word of a synthetic inode
UPPER_LAYER == 2
MaxRand == 1                  \* bpf_get_prandom_u32 draws from 0 .. MaxRand

Threads == 1 .. NThreads
Dentries == 1 .. MaxDepth
\* The source and target directory entries a link call may name.
LinkArgs == {a \in Dentries \X Dentries : a[1] + a[2] = MaxDepth + 1}
Modes == {NO_FILTER, ALLOW_LIST, DENY_LIST}
Retvals == {0, -EACCES, -ENOENT}
ExitHandlers == {"kretprobe_do_linkat", "kretprobe_sys_link", "tracepoint_sys_exit"}

VARIABLES
    syscalls,       \* the syscall cache: per key, the stack of pending entries
    policy,         \* policy mode configured for EVENT_LINK
    event_enabled,  \* whether EVENT_LINK is enabled
    pc,             \* per thread, the position of the kernel in the link call
    cur,            \* per thread, the running link instance (via: the probe it entered by)
    ctx,            \* per thread, the probe whose program chain is running
    fired,          \* per thread, the exit handlers that ran for the instance
    ring,           \* per thread, components the running walk has written
    events,         \* per thread, the events the instance sent to user space
    invalidated,    \* per thread, path keys the instance handed to invalidate_inode
    left,           \* per thread, the link calls it has still to make
    workload,       \* the arguments and return values the link calls may have
    trace,          \* per thread, the cache and resolver operations of the instance
    http            \* the call of read_into_buffer: its arguments, buffer and copy request

\* What the link handlers read or leave alone and never write.
host == <<policy, event_enabled, workload, http>>

vars == <<syscalls, host, pc, cur, ctx, fired, ring, events, invalidated, left, trace>>

\* ------------------------------------------------------------ data records
\* A 64-bit inode number is kept as its two 32-bit words.
Ino(msw, lsw) == [msw |-> msw, lsw |-> lsw]
NoKey == [mount_id |-> 0, ino |-> Ino(0, 0)]
NoFile == [path_key |-> NoKey, metadata |-> 0, flags |-> 0, path_ref |-> <<>>]
NoResolver == [dentry |-> NullDentry, key |-> NoKey, discarder_type |-> "0",
               callback |-> "0", iteration |-> 0, ret |-> 0]

\* struct syscall_cache_t as trace__sys_link initialises it; owner and inst
\* record the thread and the instance that pushed the entry, captured the
\* instance whose vfs_link probe filled it in (0: none).
NewSyscall(t, mode, async) ==
    [type |-> EVENT_LINK, policy |-> mode, async |-> async, discarded |-> FALSE,
     src_dentry |-> NullDentry, target_dentry |-> NullDentry,
     src_file |-> NoFile, target_file |-> NoFile, resolver |-> NoResolver,
     owner |-> t, inst |-> cur[t].id, captured |-> 0]

\* ------------------------------------------------------------ syscall cache
\* Mutant: every thread uses the same cache slot.
cache_key_shared(t) == 1

\* The cache slot of the running thread (bpf_get_current_pid_tgid).
cache_key(t) == t

has_syscall(t, type) ==
    /\ Len(syscalls[cache_key(t)]) > 0
    /\ syscalls[cache_key(t)][Len(syscalls[cache_key(t)])].type = type

\* peek_syscall: the pending entry of the thread (read only where has_syscall).
peek_syscall(t, type) == syscalls[cache_key(t)][Len(syscalls[cache_key(t)])]

\* cache_syscall: push, a no-op when an entry of that type is pending.
cache_syscall(t, entry) ==
    IF has_syscall(t, entry.type)
    THEN syscalls
    ELSE [syscalls EXCEPT ![cache_key(t)] = Append(@, entry)]

\* pop_syscall: remove the pending entry of that type, if any.
pop_syscall(t, type) ==
    IF has_syscall(t, type)
    THEN [syscalls EXCEPT ![cache_key(t)] = SubSeq(@, 1, Len(@) - 1)]
    ELSE syscalls

\* A write through the pointer peek_syscall returned.
store_syscall(t, entry) ==
    [syscalls EXCEPT ![cache_key(t)] = [@ EXCEPT ![Len(@)] = entry]]

mark_as_discarded(entry) == [entry EXCEPT !.discarded = TRUE]

\* ------------------------------------------------------------ policy engine
fetch_policy(type) == policy

is_discarded_by_process(mode, type, t) == mode # NO_FILTER /\ cur[t].proc_discarded

\* The directory entries the configured link approvers match.
link_approvers == {1}

filter_syscall(entry, approvers) ==
    \/ entry.policy = DENY_LIST /\ entry.src_dentry \in approvers
    \/ entry.policy = ALLOW_LIST /\ entry.src_dentry \notin approvers

is_event_enabled(type) == event_enabled

IS_UNHANDLED_ERROR(retval) == retval < 0 /\ retval # -EACCES

\* ------------------------------------------------------------ kernel objects
\* Inode, metadata and mount of a directory entry, as the kernel holds them.
InodeOf(d) == Ino(0, 100 + d)
MetadataOf(d) == 200 + d
MountOf(t) == 10 + t
is_overlayfs(d) == d % 2 = 0

Log(t, ops) == [trace EXCEPT ![t] = @ \o ops]

\* ------------------------------------------------------------ initial state
InitThreads ==
    /\ syscalls = [k \in Threads |-> <<>>]
    /\ pc = [t \in Threads |-> "idle"]
    /\ cur = [t \in Threads |-> [id |-> 0, proc_discarded |-> FALSE, retval |-> 0,
                                  vfs |-> 0, args |-> <<NullDentry, NullDentry>>,
                                  via |-> "none"]]
    /\ ctx = [t \in Threads |-> "none"]
    /\ fired = [t \in Threads |-> {}]
    /\ ring = [t \in Threads |-> <<>>]
    /\ events = [t \in Threads |-> <<>>]
    /\ invalidated = [t \in Threads |-> {}]
    /\ trace = [t \in Threads |-> <<>>]

\* ------------------------------------------------------- read_into_buffer
\* (pkg/network/ebpf/c/protocols/http/buffer.h)
HTTP_BUFFER_SIZE == 8         \* bytes of the fragment buffer
HalfWord == 65536             \* 2^16: a u32 is kept as two 16-bit halves

DataSizes == 0 .. MaxDataSize
Buffers == [1 .. HTTP_BUFFER_SIZE -> {0, 1}]   \* a byte is zero or not

\* A value below 2^31 as a u32.
U32(n) == [hi |-> n \div HalfWord, lo |-> n % HalfWord]

\* x - 1 on u32 operands: the result wraps modulo 2^32.
U32Dec(x) ==
    IF x.lo > 0
    THEN [hi |-> x.hi, lo |-> x.lo - 1]
    ELSE [hi |-> (x.hi + HalfWord - 1) % HalfWord, lo |-> HalfWord - 1]

\* n <= x for a buffer index n and a u32 x.
U32AtLeast(x, n) == x.hi > 0 \/ n <= x.lo

bpf_memset(buffer, n) == [i \in DOMAIN buffer |-> IF i <= n THEN 0 ELSE buffer[i]]

\* const u32 final_size = data_size < HTTP_BUFFER_SIZE ? data_size : HTTP_BUFFER_SIZE
final_size(data_size) ==
    U32(IF data_size < HTTP_BUFFER_SIZE THEN data_size ELSE HTTP_BUFFER_SIZE)

\* The size argument of the copy: final_size - 1.
copy_size(data_size) == U32Dec(final_size(data_size))

\* bpf_probe_read_user_with_telemetry: when the copy is carried out, the first
\* size bytes of the destination receive user data (taken as non-zero bytes),
\* as far as the buffer reaches; when the helper refuses, the destination
\* keeps its zeroes.
bpf_probe_read_user(buffer, size, carried_out) ==
    IF carried_out
    THEN [i \in DOMAIN buffer |-> IF U32AtLeast(size, i) THEN 1 ELSE buffer[i]]
    ELSE buffer

HttpIdle == [pc |-> "idle", data_size |-> 0, buffer |-> <<>>, zeroed |-> <<>>,
             size |-> U32(0)]

\* read_into_buffer(buffer, data, data_size): zeroed is the buffer right after
\* the bpf_memset, size the length it asks the copy helper for.
read_into_buffer ==
    /\ http.pc = "call"
    /\ \E carried_out \in BOOLEAN :
         LET cleared == bpf_memset(http.buffer, HTTP_BUFFER_SIZE)
         IN  http' = [http EXCEPT
                        !.pc = "done",
                        !.zeroed = cleared,
                        !.size = copy_size(http.data_size),
                        !.buffer = bpf_probe_read_user(cleared, copy_size(http.data_size),
                                                       carried_out)]
    /\ UNCHANGED <<syscalls, policy, event_enabled, workload, pc, cur, ctx, fired, ring,
                   events, invalidated, left, trace>>

\* One thread makes MaxInstances link calls in a row, under any policy.
Init ==
    /\ InitThreads
    /\ http = HttpIdle
    /\ policy \in Modes
    /\ event_enabled \in BOOLEAN
    /\ left = [t \in Threads |-> IF t = 1 THEN MaxInstances ELSE 0]
    /\ workload = [args |-> LinkArgs, retvals |-> Retvals, rands |-> 0 .. MaxRand]

\* Two threads make one successful link call each, concurrently, under a
\* deny list: a call names a source the approvers match or a deep source.
InitMT ==
    /\ InitThreads
    /\ http = HttpIdle
    /\ policy = DENY_LIST
    /\ event_enabled = TRUE
    /\ left = [t \in Threads |-> IF t \in {1, 2} THEN 1 ELSE 0]
    /\ workload = [args |-> {<<1, MaxDepth>>, <<MaxDepth, 1>>},
                   retvals |-> {0},
                   rands |-> {0}]

\* A thread enters a link call: a new instance starts. Its process may match
\* a process discarder, which only a filtering policy consults.
Start(t) ==
    /\ pc[t] = "idle"
    /\ left[t] > 0
    /\ left' = [left EXCEPT ![t] = @ - 1]
    /\ \E pd \in (IF fetch_policy(EVENT_LINK) = NO_FILTER THEN {FALSE} ELSE BOOLEAN) :
         cur' = [cur EXCEPT ![t] = [id |-> @.id + 1, proc_discarded |-> pd,
                                    retval |-> 0, vfs |-> 0,
                                    args |-> <<NullDentry, NullDentry>>,
                                    via |-> "none"]]
    /\ pc' = [pc EXCEPT ![t] = "entry"]
    /\ fired' = [fired EXCEPT ![t] = {}]
    /\ trace' = [trace EXCEPT ![t] = <<>>]
    /\ events' = [events EXCEPT ![t] = <<>>]
    /\ invalidated' = [invalidated EXCEPT ![t] = {}]
    /\ UNCHANGED <<syscalls, host, ctx, ring>>

\* trace__sys_link: the cache and the trace after the entry logic ran.
trace__sys_link_cache(t, async) ==
    IF is_discarded_by_process(fetch_policy(EVENT_LINK), EVENT_LINK, t)
    THEN syscalls
    ELSE cache_syscall(t, NewSyscall(t, fetch_policy(EVENT_LINK), async))

trace__sys_link(t, async) ==
    /\ syscalls' = trace__sys_link_cache(t, async)
    /\ trace' = IF is_discarded_by_process(fetch_policy(EVENT_LINK), EVENT_LINK, t)
                THEN trace
                ELSE IF has_syscall(t, EVENT_LINK)
                     THEN Log(t, <<"push_noop">>)
                     ELSE Log(t, <<"push">>)

\* SYSCALL_KPROBE0(link) and SYSCALL_KPROBE0(linkat).
kprobe_sys_link(t) ==
    /\ pc[t] = "entry"
    /\ trace__sys_link(t, SYNC_SYSCALL)
    /\ pc' = [pc EXCEPT ![t] = "do_linkat"]
    /\ cur' = [cur EXCEPT ![t].via = "syscall"]
    /\ UNCHANGED <<host, ctx, fired, ring, events, invalidated, left>>

\* kprobe/do_linkat: reached after the entry probe, or first when the call
\* does not come through the link or linkat entry point.
\* Mutant: the probe runs the entry logic whether or not an entry is pending.
do_linkat_enters_always(t) == TRUE

\* kprobe/do_linkat runs the entry logic.
do_linkat_enters(t) == ~has_syscall(t, EVENT_LINK)

kprobe_do_linkat(t) ==
    /\ pc[t] \in {"entry", "do_linkat"}
    /\ IF do_linkat_enters(t)
       THEN trace__sys_link(t, ASYNC_SYSCALL)
       ELSE UNCHANGED <<syscalls, trace>>
    /\ pc' = [pc EXCEPT ![t] = "in_kernel"]
    /\ cur' = [cur EXCEPT ![t].via = IF pc[t] = "entry" THEN "do_linkat" ELSE @]
    /\ UNCHANGED <<host, ctx, fired, ring, events, invalidated, left>>

\* resolve_path: the tail call into the resolver. When it is issued the
\* resolver program runs next in the same probe context; when it cannot be
\* issued control comes back to the caller.
resolve_path_issued(t, probe) ==
    /\ pc' = [pc EXCEPT ![t] = "dr"]
    /\ ctx' = [ctx EXCEPT ![t] = probe]
    /\ ring' = [ring EXCEPT ![t] = <<>>]

\* Mutant: the probe only checks that an entry is pending.
vfs_link_skips_without_entry(t) == ~has_syscall(t, EVENT_LINK)

\* kprobe/vfs_link returns without touching the entry.
vfs_link_skips(t) ==
    \/ ~has_syscall(t, EVENT_LINK)
    \/ peek_syscall(t, EVENT_LINK).target_dentry # NullDentry

\* The entry after lines 56-70: dentries and source path key captured.
vfs_link_capture(entry, t, src, tgt) ==
    [entry EXCEPT !.src_dentry = src,
                  !.target_dentry = tgt,
                  !.src_file.path_key = [mount_id |-> MountOf(t), ino |-> InodeOf(src)],
                  !.captured = cur[t].id]

\* Bitwise or of two 32-bit words.
RECURSIVE BitOr(_, _)
BitOr(a, b) ==
    IF a = 0 THEN b
    ELSE IF b = 0 THEN a
    ELSE (IF a % 2 = 1 \/ b % 2 = 1 THEN 1 ELSE 0) + 2 * BitOr(a \div 2, b \div 2)

\* x << 32 on a 64-bit value whose upper word is empty.
Shl32(x) == Ino(x, 0)

\* Mutant: the shift is lost, the marker lands in the lower word.
fake_inode_unshifted(rnd) == Ino(0, BitOr(FAKE_INODE_MSW, rnd))

\* FAKE_INODE_MSW<<32 | bpf_get_prandom_u32()
fake_inode(rnd) ==
    Ino(BitOr(Shl32(FAKE_INODE_MSW).msw, 0), BitOr(Shl32(FAKE_INODE_MSW).lsw, rnd))

\* Mutant: the source walk always runs the discard test.
src_discarder_type_always(entry) == EVENT_LINK

\* syscall->policy.mode != NO_FILTER ? EVENT_LINK : 0
src_discarder_type(entry) == IF entry.policy # NO_FILTER THEN EVENT_LINK ELSE "0"

\* The entry after lines 76-91: metadata, fake target key, resolver state.
vfs_link_fill(entry, rnd) ==
    [entry EXCEPT
        !.src_file.metadata = MetadataOf(entry.src_dentry),
        !.target_file.metadata = MetadataOf(entry.src_dentry),
        !.target_file.path_key = [mount_id |-> entry.src_file.path_key.mount_id,
                                  ino |-> fake_inode(rnd)],
        !.target_file.flags = IF is_overlayfs(entry.src_dentry) THEN UPPER_LAYER ELSE @,
        !.resolver = [dentry |-> entry.src_dentry,
                      key |-> entry.src_file.path_key,
                      discarder_type |-> src_discarder_type(entry),
                      callback |-> PR_PROGKEY_CB_LINK_SRC_KPROBE,
                      iteration |-> 0,
                      ret |-> 0]]

kprobe_vfs_link(t) ==
    /\ pc[t] = "in_kernel"
    /\ cur[t].vfs < MaxVfsCalls
    /\ \E args \in IF cur[t].vfs = 0 THEN workload.args ELSE {cur[t].args} :
         /\ cur' = [cur EXCEPT ![t].vfs = @ + 1, ![t].args = args]
         /\ IF vfs_link_skips(t)
            THEN UNCHANGED <<syscalls, pc, ctx, ring, trace>>
            ELSE LET captured == vfs_link_capture(peek_syscall(t, EVENT_LINK), t,
                                                  args[1], args[2])
                 IN  IF filter_syscall(captured, link_approvers)
                     THEN /\ syscalls' = store_syscall(t, mark_as_discarded(captured))
                          /\ trace' = Log(t, <<"filter_discard">>)
                          /\ UNCHANGED <<pc, ctx, ring>>
                     ELSE \E rnd \in workload.rands, issued \in BOOLEAN :
                            /\ syscalls' = store_syscall(t, vfs_link_fill(captured, rnd))
                            /\ IF issued
                               THEN /\ resolve_path_issued(t, "vfs_link")
                                    /\ trace' = Log(t, <<"resolve_src">>)
                               ELSE /\ UNCHANGED <<pc, ctx, ring>>
                                    /\ trace' = Log(t, <<"resolve_src", "tail_call_failed">>)
    /\ UNCHANGED <<host, fired, events, invalidated, left>>

\* -------------------------------------------------------------- path resolver
Min(a, b) == IF a < b THEN a ELSE b

\* Mutant: one invocation walks the whole path, whatever its depth.
Segment_unbounded(d) == [i \in 1 .. d |-> d + 1 - i]

\* The components one invocation reads walking up from directory entry d:
\* d, its parent d - 1, ... at most DR_MAX_ITERATION_DEPTH of them; the root
\* is reached below entry 1.
Segment(d) == [i \in 1 .. Min(DR_MAX_ITERATION_DEPTH, d) |-> d + 1 - i]

dr_type_of(probe) == IF probe = "tracepoint_sys_exit" THEN DR_TRACEPOINT ELSE DR_KPROBE

\* The callback tables: the program a callback id selects for a resolver type.
callback_prog(dr_type, callback) ==
    IF callback = PR_PROGKEY_CB_LINK_DST THEN "cb_dst"
    ELSE IF callback = PR_PROGKEY_CB_LINK_SRC_KPROBE /\ dr_type = DR_KPROBE THEN "cb_src"
    ELSE "none"

\* The program chain of the probe ends: the kernel goes on from the probe.
ChainEnds(t) ==
    /\ pc' = [pc EXCEPT ![t] = IF ctx[t] = "vfs_link" THEN "in_kernel" ELSE "exit"]
    /\ ctx' = [ctx EXCEPT ![t] = "none"]

\* One bounded invocation of the resolver program.
dentry_resolver(t) ==
    /\ pc[t] = "dr"
    /\ IF ~has_syscall(t, EVENT_LINK)
       THEN ChainEnds(t) /\ UNCHANGED <<syscalls, ring, trace>>
       ELSE LET entry == peek_syscall(t, EVENT_LINK)
                d == entry.resolver.dentry
                seg == Segment(d)
                rest == d - Len(seg)
                step == [entry EXCEPT !.resolver.dentry = rest,
                                      !.resolver.iteration = @ + 1]
            IN  /\ ring' = [ring EXCEPT ![t] = @ \o seg]
                /\ \E discard \in BOOLEAN, issued \in BOOLEAN :
                     LET terminal == \/ rest = NullDentry
                                     \/ discard /\ entry.resolver.discarder_type # "0" /\ Len(seg) > 0
                         ret == IF discard /\ entry.resolver.discarder_type # "0" /\ Len(seg) > 0
                                THEN DENTRY_DISCARDED ELSE 0
                         prog == callback_prog(dr_type_of(ctx[t]), entry.resolver.callback)
                     IN  IF terminal
                         THEN /\ syscalls' = store_syscall(t, [step EXCEPT !.resolver.ret = ret])
                              /\ IF issued /\ prog # "none"
                                 THEN /\ pc' = [pc EXCEPT ![t] = prog]
                                      /\ UNCHANGED <<ctx, trace>>
                                 ELSE /\ ChainEnds(t)
                                      /\ trace' = Log(t, <<"tail_call_failed">>)
                         ELSE IF issued
                              THEN /\ syscalls' = store_syscall(t, step)
                                   /\ UNCHANGED <<pc, ctx, trace>>
                              ELSE /\ syscalls' = store_syscall(t, [step EXCEPT !.resolver.ret = DENTRY_ERROR])
                                   /\ ChainEnds(t)
                                   /\ trace' = Log(t, <<"tail_call_failed">>)
    /\ UNCHANGED <<host, cur, fired, events, invalidated, left>>

\* ------------------------------------------------------------------ callbacks
kprobe_dr_link_src_callback(t) ==
    /\ pc[t] = "cb_src"
    /\ ChainEnds(t)
    /\ IF ~has_syscall(t, EVENT_LINK)
       THEN UNCHANGED <<syscalls, trace>>
       ELSE LET entry == peek_syscall(t, EVENT_LINK)
                filled == [entry EXCEPT !.src_file.path_ref = ring[t]]
            IN  IF entry.resolver.ret = DENTRY_DISCARDED
                THEN /\ syscalls' = store_syscall(t, mark_as_discarded(filled))
                     /\ trace' = Log(t, <<"dr_discard">>)
                ELSE /\ syscalls' = store_syscall(t, filled)
                     /\ UNCHANGED trace
    /\ UNCHANGED <<host, cur, fired, ring, events, invalidated, left>>

\* struct link_event_t as dr_link_dst_callback builds it; tid and inst are
\* the thread and the instance that send it, entry the cache entry it is
\* built from.
link_event(t, entry, retval) ==
    [type |-> EVENT_LINK,
     retval |-> retval,
     flags |-> IF entry.async # 0 THEN EVENT_FLAGS_ASYNC ELSE 0,
     source |-> entry.src_file,
     target |-> [entry.target_file EXCEPT !.path_ref = ring[t]],
     tid |-> t, inst |-> cur[t].id, entry |-> entry]

\* Mutant: the callback peeks at the entry and leaves it in the cache.
dst_callback_peek(t) == syscalls

\* The cache after the callback took its entry.
dst_callback_pop(t) == pop_syscall(t, EVENT_LINK)

dr_link_dst_callback(t, retval) ==
    /\ pc[t] = "cb_dst"
    /\ ChainEnds(t)
    /\ syscalls' = dst_callback_pop(t)
    /\ IF ~has_syscall(t, EVENT_LINK)
       THEN UNCHANGED <<events, trace>>
       ELSE IF IS_UNHANDLED_ERROR(retval)
            THEN /\ trace' = Log(t, <<"pop">>)
                 /\ UNCHANGED events
            ELSE /\ events' = [events EXCEPT ![t] =
                                  Append(@, link_event(t, peek_syscall(t, EVENT_LINK), retval))]
                 /\ trace' = Log(t, <<"pop", "emit">>)
    /\ UNCHANGED <<host, cur, fired, ring, invalidated, left>>

\* kprobe/dr_link_dst_callback and tracepoint/dr_link_dst_callback.
kprobe_dr_link_dst_callback(t) ==
    /\ dr_type_of(ctx[t]) = DR_KPROBE
    /\ dr_link_dst_callback(t, cur[t].retval)

tracepoint_dr_link_dst_callback(t) ==
    /\ dr_type_of(ctx[t]) = DR_TRACEPOINT
    /\ dr_link_dst_callback(t, cur[t].retval)

\* --------------------------------------------------------------- exit handlers
\* The kernel function returns: with an error before or in vfs_link, or with
\* success once vfs_link ran. From here on cur.vfs only tells whether the
\* vfs_link probe fired.
Return(t) ==
    /\ pc[t] = "in_kernel"
    /\ \E rv \in workload.retvals :
         /\ rv >= 0 => cur[t].vfs > 0
         /\ cur' = [cur EXCEPT ![t].retval = rv, ![t].vfs = Min(@, 1)]
    /\ pc' = [pc EXCEPT ![t] = "exit"]
    /\ UNCHANGED <<syscalls, host, ctx, fired, ring, events,
                   invalidated, left, trace>>

\* Mutant: the exit handler forgets the discarded flag.
pass_to_userspace_discarded(entry) == is_event_enabled(EVENT_LINK)

pass_to_userspace(entry) == ~entry.discarded /\ is_event_enabled(EVENT_LINK)

\* Mutant: the exit handler invalidates only what it passes to user space.
sys_link_ret_invalidates_passed(entry, retval) == retval >= 0 /\ pass_to_userspace(entry)

\* sys_link_ret calls invalidate_inode for the source key of the entry.
sys_link_ret_invalidates(entry, retval) == retval >= 0

\* Mutant: the exit handler redirects the resolver and keeps its counters.
sys_link_ret_resolver_kept(entry) ==
    [entry EXCEPT !.resolver.dentry = entry.target_dentry,
                  !.resolver.key = entry.target_file.path_key,
                  !.resolver.discarder_type = "0",
                  !.resolver.callback = PR_PROGKEY_CB_LINK_DST]

\* The entry after lines 133-138: resolver state set for the target walk.
sys_link_ret_resolver(entry) ==
    [entry EXCEPT !.resolver = [dentry |-> entry.target_dentry,
                                key |-> entry.target_file.path_key,
                                discarder_type |-> "0",
                                callback |-> PR_PROGKEY_CB_LINK_DST,
                                iteration |-> 0,
                                ret |-> 0]]

\* sys_link_ret returns before it looks at the cache.
sys_link_ret_aborts(retval) == IS_UNHANDLED_ERROR(retval)

sys_link_ret(t, probe, retval) ==
    /\ pc[t] = "exit"
    /\ probe \notin fired[t]
    /\ fired' = [fired EXCEPT ![t] = @ \cup {probe}]
    /\ IF sys_link_ret_aborts(retval) \/ ~has_syscall(t, EVENT_LINK)
       THEN UNCHANGED <<syscalls, pc, ctx, ring, invalidated, trace>>
       ELSE LET entry == peek_syscall(t, EVENT_LINK)
                inval == IF sys_link_ret_invalidates(entry, retval)
                         THEN <<"invalidate">> ELSE <<>>
            IN  /\ invalidated' = IF sys_link_ret_invalidates(entry, retval)
                                  THEN [invalidated EXCEPT ![t] = @ \cup {entry.src_file.path_key}]
                                  ELSE invalidated
                /\ IF pass_to_userspace(entry)
                   THEN \E issued \in BOOLEAN :
                          IF issued
                          THEN /\ syscalls' = store_syscall(t, sys_link_ret_resolver(entry))
                               /\ trace' = Log(t, inval \o <<"resolve_dst">>)
                               /\ resolve_path_issued(t, probe)
                          ELSE /\ syscalls' = pop_syscall(t, EVENT_LINK)
                               /\ trace' = Log(t, inval \o <<"resolve_dst", "tail_call_failed", "pop">>)
                               /\ UNCHANGED <<pc, ctx, ring>>
                   ELSE /\ syscalls' = pop_syscall(t, EVENT_LINK)
                        /\ trace' = Log(t, inval \o <<"pop">>)
                        /\ UNCHANGED <<pc, ctx, ring>>
    /\ UNCHANGED <<host, cur, events, left>>

kretprobe_do_linkat(t) == sys_link_ret(t, "kretprobe_do_linkat", cur[t].retval)

\* SYSCALL_KRETPROBE(link) and SYSCALL_KRETPROBE(linkat).
kprobe_sys_link_ret(t) == sys_link_ret(t, "kretprobe_sys_link", cur[t].retval)

tracepoint_handle_sys_link_exit(t) == sys_link_ret(t, "tracepoint_sys_exit", cur[t].retval)

\* The thread is back in user space: the instance is over.
Finish(t) ==
    /\ pc[t] = "exit"
    /\ fired[t] # {}
    /\ pc' = [pc EXCEPT ![t] = "idle"]
    /\ UNCHANGED <<syscalls, host, cur, ctx, fired, ring, events,
                   invalidated, left, trace>>

\* --------------------------------------------------------------- specification
ThreadStep(t) ==
        \/ Start(t)
        \/ kprobe_sys_link(t)
        \/ kprobe_do_linkat(t)
        \/ kprobe_vfs_link(t)
        \/ dentry_resolver(t)
        \/ kprobe_dr_link_src_callback(t)
        \/ kprobe_dr_link_dst_callback(t)
        \/ tracepoint_dr_link_dst_callback(t)
        \/ Return(t)
        \/ kretprobe_do_linkat(t)
        \/ kprobe_sys_link_ret(t)
        \/ tracepoint_handle_sys_link_exit(t)
        \/ Finish(t)

Next == \E t \in Threads : ThreadStep(t)

Spec == Init /\ [][Next]_vars

SpecMT == InitMT /\ [][Next]_vars

\* read_into_buffer is called once, with any data_size and any buffer contents.
InitBuf ==
    /\ InitThreads
    /\ policy = NO_FILTER
    /\ event_enabled = FALSE
    /\ left = [t \in Threads |-> 0]
    /\ workload = [args |-> {}, retvals |-> {}, rands |-> {}]
    /\ http \in [pc : {"call"}, data_size : DataSizes, buffer : Buffers,
                  zeroed : {<<>>}, size : {U32(0)}]

NextBuf == read_into_buffer

SpecBuf == InitBuf /\ [][NextBuf]_vars

\* ------------------------------------------------------------------ properties
Has(t, op) == \E i \in DOMAIN trace[t] : trace[t][i] = op
Count(t, op) == Cardinality({i \in DOMAIN trace[t] : trace[t][i] = op})

\* The instance of thread t is over.
Done(t) == pc[t] = "idle" /\ cur[t].id > 0
AllExitHandlersRan(t) == fired[t] = ExitHandlers

\* The whole path from directory entry d up to the root.
FullPath(d) == [i \in 1 .. d |-> d + 1 - i]

\* C1: once every exit handler of an instance has run, the thread holds no
\* EVENT_LINK entry, and the instance popped at most once: every push is
\* matched by exactly one pop on every outcome, unhandled errors included.
C1_PushPopPaired ==
    \A t \in Threads :
        Done(t) /\ AllExitHandlersRan(t) =>
            /\ ~has_syscall(t, EVENT_LINK)
            /\ Count(t, "pop") <= 1

\* C2: an instance sends at most one LINK event, whatever exit handlers fire
\* and in whatever order.
C2_AtMostOneEvent == \A t \in Threads : Len(events[t]) <= 1

\* C2 witness: all three exit handlers ran for an instance that sent its event.
C2_Witness ==
    \E t \in Threads : AllExitHandlersRan(t) /\ Len(events[t]) = 1 /\ pc[t] = "exit"

Accepted(t) ==
    /\ ~is_discarded_by_process(fetch_policy(EVENT_LINK), EVENT_LINK, t)
    /\ ~filter_syscall([policy |-> fetch_policy(EVENT_LINK), src_dentry |-> cur[t].args[1]],
                       link_approvers)

\* C4: an accepted instance that returned success sent exactly one event
\* carrying the resolved source and target records of that instance. Stated
\* for instances with EVENT_LINK enabled, no tail call refused and no
\* mid-walk discard, once all exit handlers ran.
C4_AcceptedSuccessEmitsOnce ==
    \A t \in Threads :
        /\ Done(t) /\ AllExitHandlersRan(t)
        /\ Accepted(t) /\ cur[t].retval >= 0
        /\ is_event_enabled(EVENT_LINK)
        /\ ~Has(t, "tail_call_failed") /\ ~Has(t, "dr_discard")
        => /\ Len(events[t]) = 1
           /\ events[t][1].source.path_key.ino = InodeOf(cur[t].args[1])
           /\ events[t][1].source.path_ref = FullPath(cur[t].args[1])
           /\ events[t][1].target.path_ref = FullPath(cur[t].args[2])

\* C5: an instance that is_discarded_by_process rejects pushes no cache entry
\* and sends no event.
C5_ProcessDiscardedSilent ==
    \A t \in Threads :
        cur[t].id > 0 /\ is_discarded_by_process(fetch_policy(EVENT_LINK), EVENT_LINK, t)
            => ~Has(t, "push") /\ events[t] = <<>>

\* C6: after filter_syscall matched in vfs_link no source walk is started and
\* no event is sent; until the pop the entry stays in the cache marked
\* discarded (also when the source callback discarded it); and the entry is
\* gone when the instance is over.
C6_FilterDiscardHolds ==
    \A t \in Threads :
        /\ Has(t, "filter_discard") =>
              /\ ~Has(t, "resolve_src")
              /\ events[t] = <<>>
              /\ Done(t) => ~has_syscall(t, EVENT_LINK)
        /\ (Has(t, "filter_discard") \/ Has(t, "dr_discard")) /\ ~Has(t, "pop") =>
              has_syscall(t, EVENT_LINK) /\ peek_syscall(t, EVENT_LINK).discarded

\* C7: when the call returned an unhandled error, the finished instance sent
\* no event, started no target walk, invalidated nothing, and its cache entry
\* was reclaimed.
C7_UnhandledErrorAborts ==
    \A t \in Threads :
        Done(t) /\ IS_UNHANDLED_ERROR(cur[t].retval) =>
            /\ events[t] = <<>>
            /\ ~Has(t, "resolve_dst")
            /\ invalidated[t] = {}
            /\ ~has_syscall(t, EVENT_LINK)

\* The last n operations of the instance of thread t.
LastOps(t, n) ==
    IF Len(trace[t]) < n THEN <<>> ELSE SubSeq(trace[t], Len(trace[t]) - n + 1, Len(trace[t]))

C9_OneEntryPerKey ==
    /\ [](\A k \in Threads : Len(syscalls[k]) <= 1)
    /\ [][\A t \in Threads :
            (kprobe_sys_link(t) \/ kprobe_do_linkat(t)) /\ has_syscall(t, EVENT_LINK)
                => syscalls' = syscalls]_vars
    /\ [][\A t \in Threads :
            kprobe_do_linkat(t) /\ trace'[t] # trace[t]
                => ~has_syscall(t, EVENT_LINK) /\ trace'[t] = Append(trace[t], "push")]_vars

\* C9 witness: an entry probe ran while an entry was pending, and the slot
\* still holds exactly that one entry.
C9_Witness ==
    \E t \in Threads : Has(t, "push_noop") /\ Len(syscalls[cache_key(t)]) = 1

\* What belongs to thread u: its cache slot and its own state.
ThreadState(u) ==
    <<syscalls[u], pc[u], cur[u], ctx[u], fired[u], ring[u], events[u],
      invalidated[u], left[u], trace[u]>>

\* C10: a handler that runs on one thread leaves the cache slot, the resolver
\* state and every other piece of state of the other threads unchanged; the
\* entry in a thread's slot was pushed by that thread; and the events of a
\* thread are built from its own entries and its own mount.
C10_ThreadsIsolated ==
    /\ [][\A t \in Threads : ThreadStep(t) =>
            \A u \in Threads \ {t} : ThreadState(u)' = ThreadState(u)]_vars
    /\ [](\A t \in Threads :
            /\ \A i \in DOMAIN syscalls[t] : syscalls[t][i].owner = t
            /\ \A i \in DOMAIN events[t] :
                 /\ events[t][i].tid = t
                 /\ events[t][i].entry.owner = t
                 /\ events[t][i].source.path_key.mount_id \in {0, MountOf(t)})

\* C10 witness: two threads are inside their link calls at once, each with
\* its entry pending, and one of them has sent its event.
C10_Witness ==
    \E t, u \in Threads :
        /\ t # u
        /\ has_syscall(u, EVENT_LINK) /\ pc[u] \in {"in_kernel", "dr", "cb_src", "exit"}
        /\ Len(events[t]) = 1 /\ pc[t] = "exit"
        /\ cur[u].vfs > 0

\* Invocations a walk of depth d needs under the step budget b.
Ceil(d, b) == (d + b - 1) \div b

\* The directory entry the walk that reached a callback of thread t started from.
WalkStart(t) ==
    IF pc[t] = "cb_src"
    THEN peek_syscall(t, EVENT_LINK).src_dentry
    ELSE peek_syscall(t, EVENT_LINK).target_dentry

\* The walk of thread t reached its callback in state DONE.
WalkDone(t) ==
    /\ pc[t] \in {"cb_src", "cb_dst"}
    /\ has_syscall(t, EVENT_LINK)
    /\ peek_syscall(t, EVENT_LINK).resolver.ret = 0
    /\ peek_syscall(t, EVENT_LINK).resolver.dentry = NullDentry

Populated(entry) == entry.target_dentry # NullDentry /\ ~entry.discarded

\* The source and target records vfs_link leaves in a populated entry.
LinkRecordsOk(src_dentry, source, target) ==
    /\ source.path_key.ino = InodeOf(src_dentry)
    /\ source.metadata = MetadataOf(src_dentry)
    /\ target.path_key.ino.msw = FAKE_INODE_MSW
    /\ target.path_key.ino.lsw \in workload.rands
    /\ target.path_key.ino # source.path_key.ino
    /\ target.path_key.mount_id = source.path_key.mount_id
    /\ target.metadata = source.metadata

C13_AsyncFlag ==
    \A t \in Threads :
        /\ \A i \in DOMAIN events[t] :
             LET e == events[t][i]
             IN  /\ cur[t].via = "syscall" => e.flags # EVENT_FLAGS_ASYNC
                 /\ cur[t].retval >= 0 => e.retval >= 0
                 /\ e.flags = EVENT_FLAGS_ASYNC <=> e.entry.async = ASYNC_SYSCALL
        /\ \A i \in DOMAIN syscalls[t] :
             syscalls[t][i].inst = cur[t].id =>
                 syscalls[t][i].async =
                     IF cur[t].via = "syscall" THEN SYNC_SYSCALL ELSE ASYNC_SYSCALL

\* C14 as claimed: whenever an exit handler found the entry of the instance
\* and popped it or started the target walk, discarded or not, it first
\* issued an invalidation of the source path key.
C14_InvalidateUnconditional ==
    \A t \in Threads : \A i \in DOMAIN trace[t] :
        trace[t][i] \in {"resolve_dst", "pop"} =>
            \E j \in 1 .. (i - 1) : trace[t][j] = "invalidate"

\* C14 as amended: an exit handler that finds the entry of a call that
\* returned retval >= 0 hands the source path key held by that entry to
\* invalidate_inode, whether the entry is discarded or not; for such a call
\* the invalidation comes right before the target walk is started and before
\* any pop; a call that returned a negative value invalidates nothing.
C14_InvalidateOnSuccess ==
    /\ [][\A t \in Threads :
            pc[t] = "exit" /\ fired'[t] # fired[t] /\ has_syscall(t, EVENT_LINK) =>
                IF cur[t].retval >= 0
                THEN /\ peek_syscall(t, EVENT_LINK).src_file.path_key \in invalidated'[t]
                     /\ Has(t, "invalidate")'
                ELSE invalidated'[t] = {}]_vars
    /\ [](\A t \in Threads :
            /\ cur[t].retval < 0 => invalidated[t] = {} /\ ~Has(t, "invalidate")
            /\ cur[t].retval >= 0 =>
                 \A i \in DOMAIN trace[t] :
                    /\ trace[t][i] = "resolve_dst" => i > 1 /\ trace[t][i - 1] = "invalidate"
                    /\ trace[t][i] = "pop" => \E j \in 1 .. (i - 1) : trace[t][j] = "invalidate")

\* C14 witness: a successful call whose entry the source callback marked
\* discarded was invalidated and then popped by the exit handler.
C14_Witness ==
    \E t \in Threads :
        /\ Has(t, "dr_discard")
        /\ cur[t].retval >= 0
        /\ LastOps(t, 2) = <<"invalidate", "pop">>
        /\ invalidated[t] = {[mount_id |-> MountOf(t), ino |-> InodeOf(cur[t].args[1])]}

\* The source walk of the pending entry of thread t ended in DISCARDED.
SourceWalkDiscarded(t) ==
    /\ has_syscall(t, EVENT_LINK)
    /\ peek_syscall(t, EVENT_LINK).resolver.callback = PR_PROGKEY_CB_LINK_SRC_KPROBE
    /\ peek_syscall(t, EVENT_LINK).resolver.ret = DENTRY_DISCARDED

\* C15: once the source walk of an instance ended in DISCARDED and its
\* program chain is over (no tail call refused), the source callback ran: it
\* stored the path reference and marked the entry discarded; the instance
\* then sends no event; the entry stays in the cache, discarded, as long as
\* no exit handler popped it; and it is gone once the exit handlers ran.
C15_SourceDiscardCleansUp ==
    \A t \in Threads :
        /\ /\ SourceWalkDiscarded(t)
           /\ peek_syscall(t, EVENT_LINK).inst = cur[t].id
           /\ pc[t] # "cb_src"
           /\ ~Has(t, "tail_call_failed")
           => Has(t, "dr_discard")
        /\ Has(t, "dr_discard") =>
              /\ events[t] = <<>>
              /\ ~Has(t, "resolve_dst")
              /\ ~Has(t, "pop") =>
                    /\ SourceWalkDiscarded(t)
                    /\ peek_syscall(t, EVENT_LINK).discarded
                    /\ peek_syscall(t, EVENT_LINK).src_file.path_ref # <<>>
              /\ Done(t) /\ AllExitHandlersRan(t) => ~has_syscall(t, EVENT_LINK)

\* C16: for every data_size, 0 included, read_into_buffer zeroes the whole
\* buffer, then asks for a copy of at most HTTP_BUFFER_SIZE - 1 bytes, and
\* the last byte of the buffer is zero when it returns.
C16_AlwaysNullTerminated ==
    http.pc = "done" =>
        /\ \A i \in 1 .. HTTP_BUFFER_SIZE : http.zeroed[i] = 0
        /\ http.size.hi = 0 /\ http.size.lo <= HTTP_BUFFER_SIZE - 1
        /\ http.buffer[HTTP_BUFFER_SIZE] = 0

\* C17: the entry an event is built from was filled in by the vfs_link probe
\* of the instance that sends the event, or by none: the dentries, path keys,
\* metadata and discarded flag behind an event never come from an earlier
\* instance of the thread.
C17_EventFromOwnInstance ==
    \A t \in Threads : \A i \in DOMAIN events[t] :
        LET e == events[t][i]
        IN  /\ e.entry.captured \in {0, e.inst}
            /\ e.entry.captured = e.inst =>
                  /\ e.entry.src_dentry = cur[t].args[1]
                  /\ e.entry.target_dentry = cur[t].args[2]
                  /\ e.source.path_key.ino = InodeOf(cur[t].args[1])

\* C18: a firing of kprobe/vfs_link that finds no EVENT_LINK entry, or an
\* entry whose target dentry is set, leaves the cache (entry, resolver state,
\* discarded flag) unchanged and starts no walk; so within one instance the
\* probe fills an entry at most once and at most one source walk is started.
C18_VfsLinkPopulatesOnce ==
    /\ [][\A t \in Threads :
            /\ kprobe_vfs_link(t)
            /\ \/ ~has_syscall(t, EVENT_LINK)
               \/ peek_syscall(t, EVENT_LINK).target_dentry # NullDentry
            => /\ syscalls' = syscalls
               /\ pc'[t] = "in_kernel" /\ ctx' = ctx /\ ring' = ring
               /\ trace' = trace]_vars
    /\ [](\A t \in Threads :
            /\ Count(t, "resolve_src") <= 1
            /\ Count(t, "resolve_src") + Count(t, "filter_discard") <= 1)

\* C18 witness: the probe fired twice in an instance whose entry it filled at
\* the first firing, and one source walk was started.
C18_Witness ==
    \E t \in Threads :
        /\ cur[t].vfs = MaxVfsCalls
        /\ has_syscall(t, EVENT_LINK)
        /\ peek_syscall(t, EVENT_LINK).captured = cur[t].id
        /\ Count(t, "resolve_src") = 1

\* C19: while a walk runs, the resolver state of its entry is the one the
\* caller of resolve_path initialised (start dentry, key, discarder type and
\* callback id of that walk, iteration = 0, ret = 0) advanced by the
\* invocations of this walk only: the target walk sees nothing the source
\* walk left; and the destination callback runs only at the end of a walk an
\* exit handler started with callback id PR_PROGKEY_CB_LINK_DST.
C19_ResolverReinitialised ==
    \A t \in Threads :
        /\ pc[t] = "dr" =>
              /\ has_syscall(t, EVENT_LINK)
              /\ LET e == peek_syscall(t, EVENT_LINK)
                     src == ctx[t] = "vfs_link"
                 IN  /\ e.resolver.callback =
                           IF src THEN PR_PROGKEY_CB_LINK_SRC_KPROBE ELSE PR_PROGKEY_CB_LINK_DST
                     /\ e.resolver.key =
                           IF src THEN e.src_file.path_key ELSE e.target_file.path_key
                     /\ e.resolver.discarder_type =
                           IF src /\ e.policy # NO_FILTER THEN EVENT_LINK ELSE "0"
                     /\ e.resolver.ret = 0
                     /\ e.resolver.dentry =
                           (IF src THEN e.src_dentry ELSE e.target_dentry) - Len(ring[t])
                     /\ e.resolver.iteration = Ceil(Len(ring[t]), DR_MAX_ITERATION_DEPTH)
        /\ pc[t] = "cb_dst" =>
              /\ has_syscall(t, EVENT_LINK)
              /\ peek_syscall(t, EVENT_LINK).resolver.callback = PR_PROGKEY_CB_LINK_DST
              /\ peek_syscall(t, EVENT_LINK).resolver.ret = 0
              /\ ctx[t] \in ExitHandlers
              /\ Has(t, "resolve_dst")

\* C19 witness: a target walk is about to start on an entry whose source walk
\* took more than one invocation of the resolver.
C19_Witness ==
    \E t \in Threads :
        /\ pc[t] = "dr" /\ ctx[t] \in ExitHandlers
        /\ has_syscall(t, EVENT_LINK)
        /\ peek_syscall(t, EVENT_LINK).resolver.iteration = 0
        /\ peek_syscall(t, EVENT_LINK).target_dentry # NullDentry
        /\ Len(peek_syscall(t, EVENT_LINK).src_file.path_ref) > DR_MAX_ITERATION_DEPTH

\* C20: a pending entry carries a discarder type other than 0 only for a
\* source walk and only when its policy mode is not NO_FILTER, and the type
\* is then EVENT_LINK; an entry set up for the target walk has discarder type
\* 0 and its walk never ends in DISCARDED; an entry pushed under NO_FILTER is
\* never marked discarded, and under NO_FILTER no instance is discarded by
\* the resolver.
C20_DiscardOnlySourceWalk ==
    \A t \in Threads :
        /\ \A i \in DOMAIN syscalls[t] :
             LET e == syscalls[t][i]
             IN  /\ e.resolver.discarder_type # "0" =>
                       /\ e.resolver.discarder_type = EVENT_LINK
                       /\ e.resolver.callback = PR_PROGKEY_CB_LINK_SRC_KPROBE
                       /\ e.policy # NO_FILTER
                 /\ e.resolver.callback = PR_PROGKEY_CB_LINK_DST =>
                       /\ e.resolver.discarder_type = "0"
                       /\ e.resolver.ret # DENTRY_DISCARDED
                 /\ e.resolver.ret = DENTRY_DISCARDED => e.policy # NO_FILTER
                 /\ e.policy = NO_FILTER => ~e.discarded
        /\ fetch_policy(EVENT_LINK) = NO_FILTER => ~Has(t, "dr_discard")

\* C20 witness: under a filtering policy, the target walk of an entry whose
\* source walk ran with the discard test enabled reached the destination
\* callback.
C20_Witness ==
    \E t \in Threads :
        /\ fetch_policy(EVENT_LINK) # NO_FILTER
        /\ pc[t] = "cb_dst"
        /\ Has(t, "resolve_src")
        /\ peek_syscall(t, EVENT_LINK).src_file.path_ref # <<>>
        /\ peek_syscall(t, EVENT_LINK).resolver.discarder_type = "0"

====
